---- MODULE Spec2Model ----
(***************************************************************************)
(* A model of the JSON tokenizer of src/src/tokenize.rs.                   *)
(*                                                                         *)
(* A character is a one-character string.  `chars' is the input as the     *)
(* Vec<char> of tokenize(); `index' is the cursor, 0-based as in the       *)
(* source, so the source's chars[i] is CharAt(i) == chars[i + 1].          *)
(* One action is one step of a loop of the source (or one call/return),    *)
(* sequenced by `pc'.                                                      *)
(***************************************************************************)
EXTENDS Integers, Sequences, FiniteSets, TLC

VARIABLES
    chars,          \* tokenize: chars (the input, immutable during a scan)
    index,          \* tokenize: index (the cursor, shared by every scanner)
    tokens,         \* tokenize: tokens
    pc,             \* position of the scan in the code
    result,         \* what tokenize() has returned (or that it still runs)
    token,          \* make_token: the token a scanner has returned
    string,         \* tokenize_string: string
    is_escaping,    \* tokenize_string: is_escaping
    unparsed_num,   \* tokenize_float: unparsed_num
    has_decimal,    \* tokenize_float: has_decimal
    has_negative,   \* tokenize_float: has_negative
    string_value,   \* tokenize_literal: string_value (the expected keyword)
    literal_pos,    \* tokenize_literal: position of the for loop in string_value
    literal_token,  \* tokenize_literal: token (returned on a full match)
    tok_start,      \* history: cursor at which the latest token was dispatched (-1: none)
    spans           \* history: for each pushed token, the positions of its text

vars == <<chars, index, tokens, pc, result, token, string, is_escaping,
          unparsed_num, has_decimal, has_negative, string_value, literal_pos,
          literal_token, tok_start, spans>>

-----------------------------------------------------------------------------
(* Bounds of the inputs.                                                   *)

MaxLen == 4         \* inputs over CoreAlphabet
MaxPunctLen == 3    \* inputs of punctuation only
MaxWsLen == 2       \* inputs of whitespace only
MaxNumLen == 3      \* inputs over the numeric characters
MaxAffix == 1       \* characters before and after a keyword (prefix)

-----------------------------------------------------------------------------
(* Characters.                                                             *)

\* fault variant: a whitespace test that forgets TAB
IsAsciiWhitespaceNoTab(c) == c \in {" ", "\n", "\f", "\r"}

\* char::is_ascii_whitespace: SPACE, TAB, LF, FF, CR
IsAsciiWhitespace(c) == c \in {" ", "\t", "\n", "\f", "\r"}

Digits == {"0", "1", "2", "3", "4", "5", "6", "7", "8", "9"}

\* fault variant: a leading '-' is taken for the start of a number
IsAsciiDigitOrMinus(c) == c \in Digits \cup {"-"}

IsAsciiDigit(c) == c \in Digits

Punctuation == {"[", "]", "{", "}", ",", ":"}

\* fault variant: the arms of '[' and '{' exchanged
PunctTokenSwapped(c) ==
    CASE c = "[" -> [type |-> "LeftBrace"]
      [] c = "]" -> [type |-> "RightBracket"]
      [] c = "{" -> [type |-> "LeftBracket"]
      [] c = "}" -> [type |-> "RightBrace"]
      [] c = "," -> [type |-> "Comma"]
      [] c = ":" -> [type |-> "Colon"]

\* make_token: the single-character arms of the match
PunctToken(c) ==
    CASE c = "[" -> [type |-> "LeftBracket"]
      [] c = "]" -> [type |-> "RightBracket"]
      [] c = "{" -> [type |-> "LeftBrace"]
      [] c = "}" -> [type |-> "RightBrace"]
      [] c = "," -> [type |-> "Comma"]
      [] c = ":" -> [type |-> "Colon"]

\* fault variant: the keyword of 't' misspelt
KeywordOfMisspelt(c) ==
    CASE c = "n" -> [text |-> <<"n", "u", "l", "l">>, token |-> [type |-> "Null"]]
      [] c = "t" -> [text |-> <<"t", "u", "r", "e">>, token |-> [type |-> "True"]]
      [] c = "f" -> [text |-> <<"f", "a", "l", "s", "e">>, token |-> [type |-> "False"]]

\* make_token: the keyword arms of the match: first character -> (string_value, token)
KeywordOf(c) ==
    CASE c = "n" -> [text |-> <<"n", "u", "l", "l">>, token |-> [type |-> "Null"]]
      [] c = "t" -> [text |-> <<"t", "r", "u", "e">>, token |-> [type |-> "True"]]
      [] c = "f" -> [text |-> <<"f", "a", "l", "s", "e">>, token |-> [type |-> "False"]]

KeywordStarts == {"n", "t", "f"}

NoToken == [type |-> "None"]

-----------------------------------------------------------------------------
(* str::parse::<f64>() on the text tokenize_float accumulates.             *)
(* Grammar of f64::from_str restricted to the characters that text can     *)
(* hold (digits, '.', '-'): an optional leading sign, then digits with at  *)
(* most one '.', at least one digit.  The empty text is the error Empty,   *)
(* anything else outside the grammar is the error Invalid.  The value is   *)
(* kept as an exact decimal: the integer part as a number and the digits   *)
(* of the fraction without trailing zeros, so that "1", "1." , "1.0" and   *)
(* "01" denote the same value, as they do as f64.                          *)

DigitVal(c) ==
    CASE c = "0" -> 0 [] c = "1" -> 1 [] c = "2" -> 2 [] c = "3" -> 3
      [] c = "4" -> 4 [] c = "5" -> 5 [] c = "6" -> 6 [] c = "7" -> 7
      [] c = "8" -> 8 [] c = "9" -> 9

RECURSIVE IntVal(_)
IntVal(ds) ==
    IF ds = <<>> THEN 0
    ELSE 10 * IntVal(SubSeq(ds, 1, Len(ds) - 1)) + DigitVal(ds[Len(ds)])

RECURSIVE StripTrailingZeros(_)
StripTrailingZeros(ds) ==
    IF ds # <<>> /\ ds[Len(ds)] = "0"
    THEN StripTrailingZeros(SubSeq(ds, 1, Len(ds) - 1))
    ELSE ds

CountOf(c, s) == Cardinality({i \in 1..Len(s) : s[i] = c})

DotPos(s) == IF \E i \in 1..Len(s) : s[i] = "."
             THEN CHOOSE i \in 1..Len(s) : s[i] = "."
             ELSE Len(s) + 1

\* fault variant: a parse that drops the minus signs instead of rejecting the text
ParseFloatLenient(s) ==
    LET body == SelectSeq(s, LAMBDA c : c # "-")
        d == DotPos(body)
    IN  IF body = <<>> THEN [ok |-> FALSE, err |-> "Empty"]
        ELSE [ok |-> TRUE,
              value |-> [neg |-> FALSE,
                         int |-> IntVal(SubSeq(body, 1, d - 1)),
                         frac |-> StripTrailingZeros(SubSeq(body, d + 1, Len(body)))]]

ParseFloat(s) ==
    IF s = <<>> THEN [ok |-> FALSE, err |-> "Empty"]
    ELSE
      LET signed == s[1] \in {"-", "+"}
          body == IF signed THEN Tail(s) ELSE s
          d == DotPos(body)
          valid == /\ \A i \in 1..Len(body) : body[i] \in Digits \cup {"."}
                   /\ CountOf(".", body) <= 1
                   /\ \E i \in 1..Len(body) : body[i] \in Digits
      IN  IF valid
          THEN [ok |-> TRUE,
                value |-> [neg |-> s[1] = "-",
                           int |-> IntVal(SubSeq(body, 1, d - 1)),
                           frac |-> StripTrailingZeros(SubSeq(body, d + 1, Len(body)))]]
          ELSE [ok |-> FALSE, err |-> "Invalid"]

-----------------------------------------------------------------------------
(* The inputs of a scan.                                                   *)

SeqsUpTo(S, n) == UNION {[1..k -> S] : k \in 0..n}

CoreAlphabet == {"[", "]", ",", "1", ".", "-", "\"", "\\", " ", "@", "n"}

NumAlphabet == {"0", "1", "2", "3", ".", "-"}

AffixAlphabet == {",", " ", "1", "\"", "e"}

Whitespace == {" ", "\t", "\n", "\f", "\r"}

Keywords == {KeywordOf(c).text : c \in KeywordStarts}

\* the keywords and their proper prefixes ("n", "nu", "nul", "null", ...)
KeywordPrefixes == UNION {{SubSeq(k, 1, n) : n \in 1..Len(k)} : k \in Keywords}

\* the inputs of the tests of src/src/tokenize.rs
TestInputs ==
    { <<"t", "r", "u", "e", ",">>,
      <<",">>,
      <<"n", "u", "l", "l">>,
      <<"t", "r", "u", "e">>,
      <<"f", "a", "l", "s", "e">>,
      <<"1", "0", "0">>,
      <<"1", ".", "2", "3">>,
      <<" ">>,
      <<"[", "]", "{", "}", ",", ":">>,
      <<"\"", "k", "e", "n", "\"">>,
      <<"\"", "k", "e", "n">>,
      <<"\"", "t", "h", "e", " ", "\\", "\"", " ", "i", "s", " ", "O", "K", "\"">>,
      <<"{", "\"", "k", "e", "y", "\"", ":", " ", "\"", "v", "a", "l", "u", "e", "\"", "}">> }

Inputs ==
    SeqsUpTo(CoreAlphabet, MaxLen)
    \cup SeqsUpTo(Punctuation, MaxPunctLen)
    \cup SeqsUpTo(Whitespace, MaxWsLen)
    \cup SeqsUpTo(NumAlphabet, MaxNumLen)
    \cup {pre \o k \o post : pre \in SeqsUpTo(AffixAlphabet, MaxAffix),
                             k \in KeywordPrefixes,
                             post \in SeqsUpTo(AffixAlphabet, MaxAffix)}
    \cup TestInputs

-----------------------------------------------------------------------------
(* State helpers.                                                          *)

CharAt(i) == chars[i + 1]

Running == [kind |-> "Running"]

Ok(ts) == [kind |-> "Ok", tokens |-> ts]

Err(e) == [kind |-> "Err", err |-> e]

\* an index out of bounds of the slice: the thread panics
Panic == [kind |-> "Panic"]

-----------------------------------------------------------------------------
(* tokenize(): the state after lines 8-11, for any input.                  *)

strLocals == <<string, is_escaping>>
numLocals == <<unparsed_num, has_decimal, has_negative>>
litLocals == <<string_value, literal_pos, literal_token>>
history == <<tok_start, spans>>

Init ==
    /\ chars \in Inputs
    /\ index = 0
    /\ tokens = <<>>
    /\ pc = "loop"
    /\ result = Running
    /\ token = NoToken
    /\ string = <<>>
    /\ is_escaping = FALSE
    /\ unparsed_num = <<>>
    /\ has_decimal = FALSE
    /\ has_negative = FALSE
    /\ string_value = <<>>
    /\ literal_pos = 1
    /\ literal_token = NoToken
    /\ tok_start = -1
    /\ spans = <<>>

\* a `return Err(..)' of a scanner, propagated by the `?' of make_token and tokenize
Fail(e) ==
    /\ result' = Err(e)
    /\ pc' = "done"

\* tokenize: `while index < chars.len()' holds: make_token is called
tokenize_loop ==
    /\ pc = "loop"
    /\ index < Len(chars)
    /\ pc' = "make_token"
    /\ UNCHANGED <<chars, index, tokens, result, token, strLocals, numLocals,
                   litLocals, history>>

\* fault variant: an input that yields no token is reported as an unexpected end
tokenize_return_eof ==
    /\ pc = "loop"
    /\ ~(index < Len(chars))
    /\ result' = IF tokens = <<>> THEN Err([type |-> "UnexpectedEof"]) ELSE Ok(tokens)
    /\ pc' = "done"
    /\ UNCHANGED <<chars, index, tokens, token, strLocals, numLocals, litLocals,
                   history>>

\* tokenize: the loop test fails: Ok(tokens)
tokenize_return ==
    /\ pc = "loop"
    /\ ~(index < Len(chars))
    /\ result' = Ok(tokens)
    /\ pc' = "done"
    /\ UNCHANGED <<chars, index, tokens, token, strLocals, numLocals, litLocals,
                   history>>

\* make_token: one iteration of `while c.is_ascii_whitespace()'
make_token_whitespace ==
    /\ pc = "make_token"
    /\ IsAsciiWhitespace(CharAt(index))
    /\ index' = index + 1
    /\ IF index' >= Len(chars)
       THEN Fail([type |-> "UnexpectedEof"])
       ELSE UNCHANGED <<pc, result>>
    /\ UNCHANGED <<chars, tokens, token, strLocals, numLocals, litLocals, history>>

\* make_token: '[' ']' '{' '}' ',' ':'
make_token_punctuation ==
    /\ pc = "make_token"
    /\ CharAt(index) \in Punctuation
    /\ token' = PunctToken(CharAt(index))
    /\ tok_start' = index
    /\ pc' = "push"
    /\ UNCHANGED <<chars, index, tokens, result, strLocals, numLocals, litLocals,
                   spans>>

\* make_token: 'n' 't' 'f': the call of tokenize_literal
make_token_literal ==
    /\ pc = "make_token"
    /\ CharAt(index) \in KeywordStarts
    /\ string_value' = KeywordOf(CharAt(index)).text
    /\ literal_token' = KeywordOf(CharAt(index)).token
    /\ literal_pos' = 1
    /\ tok_start' = index
    /\ pc' = "literal"
    /\ UNCHANGED <<chars, index, tokens, result, token, strLocals, numLocals, spans>>

\* make_token: an ASCII digit: the call of tokenize_float
make_token_digit ==
    /\ pc = "make_token"
    /\ IsAsciiDigit(CharAt(index))
    /\ unparsed_num' = <<>>
    /\ has_decimal' = FALSE
    /\ has_negative' = FALSE
    /\ tok_start' = index
    /\ pc' = "float"
    /\ UNCHANGED <<chars, index, tokens, result, token, strLocals, litLocals, spans>>

\* make_token: '"': the call of tokenize_string
make_token_quote ==
    /\ pc = "make_token"
    /\ CharAt(index) = "\""
    /\ string' = <<>>
    /\ is_escaping' = FALSE
    /\ tok_start' = index
    /\ pc' = "string"
    /\ UNCHANGED <<chars, index, tokens, result, token, numLocals, litLocals, spans>>

\* make_token: `c => return Err(TokenizeError::CharNotRecognized(c))'
make_token_unrecognized ==
    /\ pc = "make_token"
    /\ ~IsAsciiWhitespace(CharAt(index))
    /\ CharAt(index) \notin Punctuation \cup KeywordStarts \cup {"\""}
    /\ ~IsAsciiDigit(CharAt(index))
    /\ Fail([type |-> "CharNotRecognized", char |-> CharAt(index)])
    /\ UNCHANGED <<chars, index, tokens, token, strLocals, numLocals, litLocals,
                   history>>

\* fault variant: a backslash sets the flag instead of toggling it
EscapeSticky(esc, ch) == IF ch = "\\" THEN TRUE ELSE FALSE

\* fault variant: no escape handling at all
EscapeNever(esc, ch) == FALSE

\* tokenize_string: the arms of the match that set is_escaping
EscapeNext(esc, ch) == IF ch = "\\" THEN ~esc ELSE FALSE

\* tokenize_string: one iteration of the loop
tokenize_string_step ==
    /\ pc = "string"
    /\ index' = index + 1
    /\ IF index' >= Len(chars)
       THEN /\ Fail([type |-> "UnclosedQuotes"])
            /\ UNCHANGED <<token, strLocals>>
       ELSE LET ch == CharAt(index')
            IN  IF ch = "\"" /\ ~is_escaping
                THEN /\ token' = [type |-> "String", text |-> string]
                     /\ pc' = "push"
                     /\ UNCHANGED <<result, strLocals>>
                ELSE /\ is_escaping' = EscapeNext(is_escaping, ch)
                     /\ string' = Append(string, ch)
                     /\ UNCHANGED <<pc, result, token>>
    /\ UNCHANGED <<chars, tokens, numLocals, litLocals, history>>

\* fault variant: the test of has_decimal inverted in the arm of '.'
FloatAcceptsDotInverted(ch, decimal) ==
    \/ IsAsciiDigit(ch)
    \/ ch = "." /\ decimal
    \/ ch = "-" /\ ~decimal

\* tokenize_float: the guards of the match arms that consume a character
FloatAccepts(ch, decimal) ==
    \/ IsAsciiDigit(ch)
    \/ ch = "." /\ ~decimal
    \/ ch = "-" /\ ~decimal

\* tokenize_float: one iteration of the while loop that consumes chars[index]
tokenize_float_step ==
    /\ pc = "float"
    /\ index < Len(chars)
    /\ FloatAccepts(CharAt(index), has_decimal)
    /\ unparsed_num' = Append(unparsed_num, CharAt(index))
    /\ has_decimal' = (has_decimal \/ CharAt(index) = ".")
    /\ has_negative' = (has_negative \/ CharAt(index) = "-")
    /\ index' = index + 1
    /\ UNCHANGED <<chars, tokens, pc, result, token, strLocals, litLocals, history>>

\* tokenize_float: the loop ends (end of input, or `_ => break'), then the parse
tokenize_float_parse ==
    /\ pc = "float"
    /\ ~(index < Len(chars) /\ FloatAccepts(CharAt(index), has_decimal))
    /\ LET parsed == ParseFloat(unparsed_num)
       IN  IF parsed.ok
           THEN /\ token' = [type |-> "Number", value |-> parsed.value]
                /\ pc' = "push"
                /\ UNCHANGED result
           ELSE /\ Fail([type |-> "ParseNumberError", kind |-> parsed.err])
                /\ UNCHANGED token
    /\ UNCHANGED <<chars, index, tokens, strLocals, numLocals, litLocals, history>>

\* tokenize_literal: one iteration of `for expected_char in string_value.chars()';
\* chars[*index] is read without a bounds check
tokenize_literal_step ==
    /\ pc = "literal"
    /\ literal_pos <= Len(string_value)
    /\ IF index >= Len(chars)
       THEN /\ result' = Panic
            /\ pc' = "done"
            /\ UNCHANGED <<index, literal_pos>>
       ELSE IF string_value[literal_pos] # CharAt(index)
            THEN /\ Fail([type |-> "UnfinishedLiteralValue"])
                 /\ UNCHANGED <<index, literal_pos>>
            ELSE /\ index' = index + 1
                 /\ literal_pos' = literal_pos + 1
                 /\ UNCHANGED <<pc, result>>
    /\ UNCHANGED <<chars, tokens, token, strLocals, numLocals, string_value,
                   literal_token, history>>

\* fault variant: the step back is one too many
LiteralEndTwoBack(i) == i - 2

\* fault variant: the step back by one is missing
LiteralEndNoStepBack(i) == i

\* tokenize_literal: `*index -= 1' after the loop
LiteralEnd(i) == i - 1

\* tokenize_literal: the loop is over: step back by one and return the token
tokenize_literal_return ==
    /\ pc = "literal"
    /\ literal_pos > Len(string_value)
    /\ index' = LiteralEnd(index)
    /\ token' = literal_token
    /\ pc' = "push"
    /\ UNCHANGED <<chars, tokens, result, strLocals, numLocals, litLocals, history>>

\* the positions of the text of the token that make_token returned with the cursor at i
TokenSpan(tok, start, i) ==
    [start |-> start, end |-> IF tok.type = "Number" THEN i - 1 ELSE i]

\* fault variant: the token is put at the front of the vector
tokenize_push_front ==
    /\ pc = "push"
    /\ tokens' = <<token>> \o tokens
    /\ spans' = Append(spans, TokenSpan(token, tok_start, index))
    /\ index' = index + 1
    /\ pc' = "loop"
    /\ UNCHANGED <<chars, result, token, strLocals, numLocals, litLocals, tok_start>>

\* tokenize: `tokens.push(token); index += 1;'
tokenize_push ==
    /\ pc = "push"
    /\ tokens' = Append(tokens, token)
    /\ spans' = Append(spans, TokenSpan(token, tok_start, index))
    /\ index' = index + 1
    /\ pc' = "loop"
    /\ UNCHANGED <<chars, result, token, strLocals, numLocals, litLocals, tok_start>>

Next ==
    \/ tokenize_loop
    \/ tokenize_return
    \/ make_token_whitespace
    \/ make_token_punctuation
    \/ make_token_literal
    \/ make_token_digit
    \/ make_token_quote
    \/ make_token_unrecognized
    \/ tokenize_string_step
    \/ tokenize_float_step
    \/ tokenize_float_parse
    \/ tokenize_literal_step
    \/ tokenize_literal_return
    \/ tokenize_push

Spec == Init /\ [][Next]_vars

-----------------------------------------------------------------------------
(* Vocabulary of the properties.                                           *)

Done == pc = "done"

UnexpectedEof == Err([type |-> "UnexpectedEof"])
UnclosedQuotes == Err([type |-> "UnclosedQuotes"])
UnfinishedLiteralValue == Err([type |-> "UnfinishedLiteralValue"])

LastToken == tokens[Len(tokens)]
LastSpan == spans[Len(spans)]

\* the tokenize loop is at its test right after a push
AfterPush == pc = "loop" /\ tokens # <<>>

\* the positions (0-based) after position p
After(p) == (p + 1)..(Len(chars) - 1)

-----------------------------------------------------------------------------
\* C1: no scanner reads the input at an index >= its length; a keyword cut
\* short by the end of the input yields a TokenizeError (never a panic).
C1_ReadsInBounds ==
    /\ pc = "make_token" => index < Len(chars)
    /\ (pc = "literal" /\ literal_pos <= Len(string_value)) => index < Len(chars)
    /\ Done => result.kind \in {"Ok", "Err"}

\* C2: 0 <= cursor <= length(input) in every state of a scan.
C2_CursorInBounds == 0 <= index /\ index <= Len(chars)

\* C3: the character that stops the numeric scanner is not consumed: once the
\* Number token is pushed the cursor is on the character right after the
\* number's text, which is the next one dispatched.
C3_TerminatorNotConsumed ==
    (AfterPush /\ LastToken.type = "Number") => index = LastSpan.end + 1

\* the number of spans of returned tokens that hold position i
Covering(i) == Cardinality({k \in 1..Len(spans) : spans[k].start <= i /\ i <= spans[k].end})

\* C4: tokenize returns Ok only when every input character is whitespace
\* between tokens or part of the text of exactly one returned token.
C4_OkCoversInput ==
    result.kind = "Ok" =>
        \A i \in 0..(Len(chars) - 1) :
            \/ Covering(i) = 1
            \/ Covering(i) = 0 /\ chars[i + 1] \in Whitespace

\* the input ends with one or more whitespace characters right after its last token
TrailingWhitespace ==
    /\ tokens # <<>>
    /\ After(LastSpan.end) # {}
    /\ \A i \in After(LastSpan.end) : chars[i + 1] \in Whitespace

\* C5: an input that ends with whitespace after its last token fails with
\* UnexpectedEof, whatever the kind of that token.
C5_TrailingWhitespaceFails ==
    (Done /\ TrailingWhitespace) => result = UnexpectedEof

\* C6: an input of one or more whitespace characters and nothing else fails
\* with UnexpectedEof (an error carries no tokens).
C6_WhitespaceOnlyFails ==
    (Done /\ chars # <<>> /\ \A i \in 1..Len(chars) : chars[i] \in Whitespace)
        => result = UnexpectedEof

C6_Witness ==
    /\ Done
    /\ Len(chars) = 2
    /\ chars[1] = "\t" /\ chars[2] \in Whitespace
    /\ result = UnexpectedEof

\* the token kind each punctuation character stands for
PunctKind(c) ==
    CASE c = "[" -> "LeftBracket"
      [] c = "]" -> "RightBracket"
      [] c = "{" -> "LeftBrace"
      [] c = "}" -> "RightBrace"
      [] c = "," -> "Comma"
      [] c = ":" -> "Colon"

\* C7: an input of punctuation characters only yields Ok with exactly one token
\* per character, the i-th token being the kind of the i-th character.
C7_PunctuationOnly ==
    (Done /\ \A i \in 1..Len(chars) : chars[i] \in Punctuation)
        => result = Ok([i \in 1..Len(chars) |-> [type |-> PunctKind(chars[i])]])

C7_Witness ==
    /\ Done
    /\ chars = <<"[", "]", "{", "}", ",", ":">>
    /\ result.kind = "Ok"
    /\ Len(result.tokens) = 6

\* the input holds the text k at positions p .. p + Len(k) - 1
MatchesAt(k, p) ==
    /\ p >= 0
    /\ p + Len(k) <= Len(chars)
    /\ SubSeq(chars, p + 1, p + Len(k)) = k

\* the latest token was dispatched where the input fully matches the keyword of c
KeywordAtStart(c) == MatchesAt(KeywordOf(c).text, tok_start)

\* C8: where the input fully matches null, true or false the keyword scanner
\* returns that one token with the cursor on the keyword's last character, so the
\* character right after the keyword is the next one dispatched.
C8_KeywordMatched ==
    /\ \A c \in KeywordStarts :
         KeywordAtStart(c) =>
            /\ result \notin {UnfinishedLiteralValue, Panic}
            /\ pc = "push" =>
                  /\ token = KeywordOf(c).token
                  /\ index = tok_start + Len(KeywordOf(c).text) - 1
            /\ AfterPush =>
                  /\ LastToken = KeywordOf(c).token
                  /\ index = tok_start + Len(KeywordOf(c).text)
    /\ \A c \in KeywordStarts :
         /\ (Done /\ chars = KeywordOf(c).text)
               => result = Ok(<<KeywordOf(c).token>>)
         /\ (Done /\ chars = KeywordOf(c).text \o <<",">>)
               => result = Ok(<<KeywordOf(c).token, [type |-> "Comma"]>>)

C8_Witness ==
    /\ Done
    /\ chars = <<"t", "r", "u", "e", ",">>
    /\ result = Ok(<<[type |-> "True"], [type |-> "Comma"]>>)

\* the number of consecutive backslashes right before position j (0-based)
RECURSIVE BackslashRun(_)
BackslashRun(j) ==
    IF j > 0 /\ chars[j] = "\\" THEN 1 + BackslashRun(j - 1) ELSE 0

\* the quotes after position p that an even number of backslashes precedes
ClosingQuotes(p) ==
    {j \in After(p) : chars[j + 1] = "\"" /\ BackslashRun(j) % 2 = 0}

FirstClosingQuote(p) ==
    CHOOSE j \in ClosingQuotes(p) : \A k \in ClosingQuotes(p) : j <= k

\* C9: a closed string literal yields a String token whose content is the
\* characters between the opening quote and the closing quote, verbatim; the
\* closing quote is the first quote at which the escaping flag is false, that is
\* the first quote after an even number of consecutive backslashes; the cursor is
\* left on it.
C9_StringContent ==
    /\ pc = "string" => is_escaping = (BackslashRun(index + 1) % 2 = 1)
    /\ (pc = "push" /\ token.type = "String") =>
          /\ ClosingQuotes(tok_start) # {}
          /\ index = FirstClosingQuote(tok_start)
          /\ token.text = SubSeq(chars, tok_start + 2, index)
    /\ result = UnclosedQuotes => ClosingQuotes(tok_start) = {}

C9_Witness ==
    /\ pc = "push"
    /\ chars = <<"\"", "\\", "\"", "\"">>
    /\ token = [type |-> "String", text |-> <<"\\", "\"">>]
    /\ index = 3

\* C10: a string literal that the end of the input cuts before a quote with the
\* escaping flag false makes tokenize fail with UnclosedQuotes, whatever tokens
\* came before it.
C10_UnclosedQuotes ==
    (Done /\ tok_start >= 0 /\ chars[tok_start + 1] = "\"" /\ ClosingQuotes(tok_start) = {})
        => result = UnclosedQuotes

C10_Witness ==
    /\ Done
    /\ tokens # <<>>
    /\ \E j \in After(tok_start) : chars[j + 1] = "\""
    /\ result = UnclosedQuotes


\* the characters that start a token
TokenStarts ==
    {"[", "]", "{", "}", ",", ":", "n", "t", "f", "\"",
     "0", "1", "2", "3", "4", "5", "6", "7", "8", "9"}

CharNotRecognized(c) == Err([type |-> "CharNotRecognized", char |-> c])

\* C11: when the first non-whitespace character the dispatch step reaches starts
\* no token ('-', '.', '@', ...), tokenize fails with CharNotRecognized carrying
\* exactly that character.
C11_CharNotRecognized ==
    [][(pc = "make_token" /\ chars[index + 1] \notin TokenStarts \cup Whitespace)
          => result' = CharNotRecognized(chars[index + 1])]_vars

C11_Witness ==
    /\ Done
    /\ tokens # <<>>
    /\ index < Len(chars)
    /\ chars[index + 1] = "-"
    /\ result = CharNotRecognized("-")

\* the spelling of the keyword that starts with c
KeywordText(c) ==
    CASE c = "n" -> <<"n", "u", "l", "l">>
      [] c = "t" -> <<"t", "r", "u", "e">>
      [] c = "f" -> <<"f", "a", "l", "s", "e">>

\* the positions of the input, from p on, that differ from the keyword k laid at p
Mismatches(k, p) ==
    {i \in p..(Len(chars) - 1) : i - p < Len(k) /\ chars[i + 1] # k[i - p + 1]}

FirstMismatch(k, p) ==
    CHOOSE i \in Mismatches(k, p) : \A j \in Mismatches(k, p) : i <= j

\* C12: a token that starts with 'n', 't' or 'f' where a character of the input
\* differs from the keyword at the same position makes tokenize fail with
\* UnfinishedLiteralValue at the first such position: no other keyword is tried
\* and no tokens are returned.
C12_UnfinishedLiteral ==
    (/\ Done
     /\ tok_start >= 0
     /\ chars[tok_start + 1] \in KeywordStarts
     /\ Mismatches(KeywordText(chars[tok_start + 1]), tok_start) # {})
        => /\ result = UnfinishedLiteralValue
           /\ index = FirstMismatch(KeywordText(chars[tok_start + 1]), tok_start)

C12_Witness ==
    /\ Done
    /\ tokens # <<>>
    /\ result = UnfinishedLiteralValue
    /\ index = tok_start + 3
    /\ index < Len(chars)


\* C13: the text the numeric scanner accumulates for one number holds at most one
\* '.' and at most one '-', and no '-' after a '.'.
C13_SingleDotAndMinus ==
    /\ CountOf(".", unparsed_num) <= 1
    /\ CountOf("-", unparsed_num) <= 1
    /\ \A i, j \in 1..Len(unparsed_num) :
          (unparsed_num[i] = "." /\ unparsed_num[j] = "-") => j < i

ParseNumberError == Err([type |-> "ParseNumberError", kind |-> "Invalid"])

\* a floating-point literal over digits, '.' and '-': an optional leading '-',
\* then digits around at most one '.', with at least one digit
ValidFloatText(s) ==
    /\ \E i \in 1..Len(s) : s[i] \in Digits
    /\ \A i \in 1..Len(s) : s[i] \in Digits \cup {".", "-"}
    /\ \A i \in 2..Len(s) : s[i] # "-"
    /\ \A i, j \in 1..Len(s) : (s[i] = "." /\ s[j] = ".") => i = j

\* C14: when the text the numeric scanner accumulated is no valid floating-point
\* literal (it holds a '-' after its first digit, as in 1-2 or 1-), tokenize
\* fails with ParseNumberError; a Number token comes only from a valid text.
C14_ParseNumberError ==
    /\ (Done /\ unparsed_num # <<>> /\ ~ValidFloatText(unparsed_num))
          => result = ParseNumberError
    /\ (pc = "push" /\ token.type = "Number") => ValidFloatText(unparsed_num)
    /\ result = ParseNumberError => ~ValidFloatText(unparsed_num)

C14_Witness ==
    /\ Done
    /\ tokens # <<>>
    /\ unparsed_num = <<"1", "-">>
    /\ result = ParseNumberError

\* digits, with at most one '.' that stands between two digits
DigitsWithDot(s) ==
    /\ s # <<>>
    /\ \A i \in 1..Len(s) : s[i] \in Digits \cup {"."}
    /\ \A i, j \in 1..Len(s) : (s[i] = "." /\ s[j] = ".") => i = j
    /\ s[1] # "." /\ s[Len(s)] # "."

NumberToken(int, frac) ==
    [type |-> "Number", value |-> [neg |-> FALSE, int |-> int, frac |-> frac]]

\* C15: an input of digits, with at most one '.' between digits, yields Ok with
\* exactly one Number token whose text is the whole input: 100 yields
\* Number(100.0) and 1.23 yields Number(1.23).
C15_DigitsOnly ==
    /\ (Done /\ DigitsWithDot(chars)) =>
          /\ result.kind = "Ok"
          /\ Len(result.tokens) = 1
          /\ result.tokens[1].type = "Number"
          /\ unparsed_num = chars
    /\ (Done /\ chars = <<"1", "0", "0">>)
          => result = Ok(<<NumberToken(100, <<>>)>>)
    /\ (Done /\ chars = <<"1", ".", "2", "3">>)
          => result = Ok(<<NumberToken(1, <<"2", "3">>)>>)

C15_Witness ==
    /\ Done
    /\ chars = <<"1", ".", "2", "3">>
    /\ result = Ok(<<NumberToken(1, <<"2", "3">>)>>)


IsPrefix(s, t) == Len(s) <= Len(t) /\ SubSeq(t, 1, Len(s)) = s

\* the tokens of the test more_complex: {"key": "value"}
MoreComplexInput ==
    <<"{", "\"", "k", "e", "y", "\"", ":", " ", "\"", "v", "a", "l", "u", "e", "\"", "}">>

MoreComplexTokens ==
    << [type |-> "LeftBrace"],
       [type |-> "String", text |-> <<"k", "e", "y">>],
       [type |-> "Colon"],
       [type |-> "String", text |-> <<"v", "a", "l", "u", "e">>],
       [type |-> "RightBrace"] >>

\* C16: the token sequence is append-only and in scan order: the tokens at a step
\* are a prefix of the tokens at the next step, the text of token i starts before
\* the text of token i + 1, and whitespace between tokens yields no token.
C16_AppendOnly ==
    /\ [][IsPrefix(tokens, tokens')]_vars
    /\ [](/\ Len(spans) = Len(tokens)
          /\ \A k \in 1..(Len(spans) - 1) : spans[k].start < spans[k + 1].start
          /\ \A k \in 1..Len(spans) : chars[spans[k].start + 1] \notin Whitespace
          /\ result.kind = "Ok" => result.tokens = tokens
          /\ (Done /\ chars = MoreComplexInput) => result = Ok(MoreComplexTokens))

C16_Witness ==
    /\ Done
    /\ chars = MoreComplexInput
    /\ result = Ok(MoreComplexTokens)

\* C17: the cursor never decreases from one step to the next, except for the
\* keyword scanner's step back by exactly one after a full match, which never
\* takes the cursor below the position where the keyword started.
C17_CursorMonotonic ==
    [][\/ index' >= index
       \/ /\ pc = "literal"
          /\ MatchesAt(string_value, tok_start)
          /\ index = tok_start + Len(string_value)
          /\ index' = index - 1
          /\ index' >= tok_start]_vars

C17_Witness ==
    /\ pc = "push"
    /\ token = [type |-> "Null"]
    /\ tokens # <<>>
    /\ index = tok_start + 3


\* C18: every scan ends, with a complete token sequence or with one error: an
\* iteration of the tokenize loop leaves the cursor beyond the position where its
\* token started, and a scan that has not returned can always take a step.
C18_Terminates ==
    /\ Done => result.kind \in {"Ok", "Err"}
    /\ AfterPush => index > LastSpan.start
    /\ ~Done => ENABLED Next
    /\ Done => ~ENABLED Next

\* C19: the empty input yields Ok with no tokens: make_token is never entered,
\* no error is produced and the cursor stays at 0.
C19_EmptyInput ==
    chars = <<>> =>
        /\ pc \in {"loop", "done"}
        /\ index = 0
        /\ tokens = <<>>
        /\ result \in {Running, Ok(<<>>)}
        /\ Done => result = Ok(<<>>)

C19_Witness ==
    /\ chars = <<>>
    /\ Done
    /\ result = Ok(<<>>)
    /\ index = 0

====
